---- MODULE Spec2Model ----
(***************************************************************************)
(* K1 digital twin: the TwinEngine state engine (src/src/sim/core.py),     *)
(* its command-line front end (src/src/cli/main.py) and its HTTP front end *)
(* (src/src/api/server.py), driven by several threads, with the assets     *)
(* directory as environment.  Every method is split at the points where    *)
(* CPython may switch threads: lock acquisition and release, each          *)
(* attribute load and store, each system call, each sleep.                 *)
(***************************************************************************)
EXTENDS Integers, Sequences, FiniteSets, TLC

\* ------------------------------------------------------------------ bounds

\* tick() is called at most MaxTick times in one behaviour (the run loop is
\* unbounded in the code).
MaxTick == 3

\* ------------------------------------------------------------- vocabulary

Threads == {"t1", "t2", "t3"}
NoThread == "none"
None == "None"

\* Values of the constructor's assets_dir: its default, and another path.
DefaultDir == "00_Engineering_Source"
Dirs == {DefaultDir, "assets"}
\* No mapping: what a thread holds where state() has returned none to it.
NoResult == << >>

\* Directory entry names, as sequences of characters: "a", ".h" and "b.c".
Names == { <<"a">>, <<".", "h">>, <<"b", ".", "c">> }

\* What self.assets_dir names on disk: nothing, a regular file, a directory
\* whose listing is refused, or a listable directory with its entries.
FsStates ==
    { [kind |-> k, entries |-> {}] : k \in {"missing", "file", "denied"} }
    \cup { [kind |-> "dir", entries |-> e] : e \in SUBSET Names }

VARIABLES
    tick_count,     \* TwinEngine.tick_count
    assets_count,   \* TwinEngine.assets_count
    lock,           \* TwinEngine._lock: the holding thread, or NoThread
    running,        \* TwinEngine._running
    assets_dir,     \* TwinEngine.assets_dir
    fs,             \* the file system object at assets_dir
    host,           \* the program that owns the engine: "lib" (threads
                    \*   calling the engine's methods), "cli" or "http"
    callers,        \* the threads the host program runs (fixed at start)
    pc,             \* per thread: the next step
    op,             \* per thread: the top-level operation it is in, or None
    tmp,            \* per thread: the value on the evaluation stack
    result,         \* per thread: the mapping state() built, or NoResult
    arg,            \* per thread: the ticks argument / the request path
    iter,           \* per thread: iterations done by cmd_run's for loop
    out,            \* per thread: lines printed / responses sent
    wire,           \* per thread: the headers and bytes of the responses
                    \*   sent, as they go to the client
    path,           \* per thread: the branch its load_assets() took
    listed,         \* per thread: the entries os.listdir saw (history)
    seen,           \* per thread: the (tick, assets) pairs the engine held
                    \*   since its state() took the lock (history)
    nTickCalls,     \* number of tick() calls made so far (history)
    scanned,        \* per thread: the path its load_assets() gave to
                    \*   os.path.isdir / os.listdir (history)
    loop            \* per thread: what became of the run() loop it is in
                    \*   (history): "none" outside run(), "live" once it set
                    \*   the flag, "stopped" once a stop() cleared the flag,
                    \*   "revived" once a later run() set the flag again

engineVars == << tick_count, assets_count, lock, running, assets_dir >>
hostVars == << host, callers >>
localVars == << op, tmp, result >>
frontVars == << arg, iter, out, wire >>
histVars == << path, listed, seen, nTickCalls, scanned, loop >>

vars == << engineVars, fs, hostVars, pc, localVars, frontVars, histVars >>

MainThread == "t1"

\* Request paths: the three routes and some that are none.
Paths == {"/", "/health", "/state", "/state?x=1", "/health/", "/missing"}

\* Values of the CLI's ticks argument (argparse type=int).
TicksArgs == -1 .. MaxTick

\* ------------------------------------------------------- pure functions

\* str.startswith
StartsWith(f, prefix) ==
    /\ Len(f) >= Len(prefix)
    /\ SubSeq(f, 1, Len(prefix)) = prefix

\* [f for f in listing if not f.startswith(".")]
RECURSIVE Visible(_)
Visible(listing) ==
    IF listing = << >> THEN << >>
    ELSE IF ~StartsWith(Head(listing), <<".">>)
         THEN <<Head(listing)>> \o Visible(Tail(listing))
         ELSE Visible(Tail(listing))

\* Mutant of CountAssets: hidden entries are counted too.
CountAssetsAll(listing) == Len(listing)

\* len([f for f in os.listdir(d) if not f.startswith(".")])
CountAssets(listing) == Len(Visible(listing))

\* The lists os.listdir may return for a directory holding `entries`: every
\* entry once, in an order the file system chooses.
Listings(entries) ==
    { s \in [1..Cardinality(entries) -> entries] :
        \A i, j \in 1..Cardinality(entries) : s[i] = s[j] => i = j }

\* Where a thread continues when an engine method it called returns.
AfterReturn(t, method) ==
    CASE op[t] = "run" /\ method = "tick" -> "run_sleep"
      [] op[t] = "cmd_state" /\ method = "load_assets" -> "state_acquire"
      [] op[t] = "cmd_state" /\ method = "state" -> "cmd_state_print_status"
      [] op[t] = "cmd_run" /\ method = "load_assets" -> "cmd_run_loop"
      [] op[t] = "cmd_run" /\ method = "tick" -> "cmd_run_sleep"
      [] op[t] = "cmd_run" /\ method = "state" -> "cmd_run_print_done"
      [] op[t] = "do_GET" /\ method = "state" -> "get_send_state"
      [] op[t] = "server" /\ method = "load_assets" -> "server_bind"
      [] OTHER -> "idle"

TickPcs == {"tick_acquire", "tick_load", "tick_store", "tick_release"}
StatePcs == {"state_acquire", "state_read_tick", "state_read_assets",
             "state_release", "state_return"}
LoadPcs == {"load_isdir", "load_absent", "load_listdir", "load_store",
            "load_except", "load_return"}
RunPcs == {"run_set", "run_check", "run_sleep"}

\* History: every thread whose state() holds the lock records the pair the
\* engine holds after a write.
Record(tk, as) ==
    seen' = [u \in Threads |->
                IF pc[u] \in {"state_read_tick", "state_read_assets", "state_release"}
                THEN seen[u] \cup {<<tk, as>>}
                ELSE seen[u]]

\* A thread moves to `next`; when that ends its top-level operation its
\* frame is dropped.
Goto(t, next) ==
    /\ pc' = [pc EXCEPT ![t] = next]
    /\ op' = [op EXCEPT ![t] = IF next = "idle" THEN None ELSE @]

\* ------------------------------------------------------------------ Init

\* Mutant of InitEngine: the constructor scans assets_dir itself.
InitEngineScans ==
    /\ tick_count = 0
    /\ fs \in FsStates
    /\ assets_count = IF fs.kind = "dir"
                         THEN Cardinality({ f \in fs.entries : f[1] # "." })
                         ELSE 0
    /\ lock = NoThread
    /\ running = FALSE
    /\ assets_dir \in Dirs
    /\ pc = [t \in Threads |-> "idle"]
    /\ op = [t \in Threads |-> None]
    /\ tmp = [t \in Threads |-> 0]
    /\ result = [t \in Threads |-> NoResult]
    /\ arg = [t \in Threads |-> None]
    /\ iter = [t \in Threads |-> 0]
    /\ out = [t \in Threads |-> << >>]
    /\ wire = [t \in Threads |-> << >>]
    /\ path = [t \in Threads |-> None]
    /\ listed = [t \in Threads |-> {}]
    /\ seen = [t \in Threads |-> {}]
    /\ nTickCalls = 0
    /\ scanned = [t \in Threads |-> None]
    /\ loop = [t \in Threads |-> "none"]

\* TwinEngine.__init__, no thread started yet.
InitEngine ==
    /\ tick_count = 0
    /\ assets_count = 0
    /\ lock = NoThread
    /\ running = FALSE
    /\ assets_dir \in Dirs
    /\ fs \in FsStates
    /\ pc = [t \in Threads |-> "idle"]
    /\ op = [t \in Threads |-> None]
    /\ tmp = [t \in Threads |-> 0]
    /\ result = [t \in Threads |-> NoResult]
    /\ arg = [t \in Threads |-> None]
    /\ iter = [t \in Threads |-> 0]
    /\ out = [t \in Threads |-> << >>]
    /\ wire = [t \in Threads |-> << >>]
    /\ path = [t \in Threads |-> None]
    /\ listed = [t \in Threads |-> {}]
    /\ seen = [t \in Threads |-> {}]
    /\ nTickCalls = 0
    /\ scanned = [t \in Threads |-> None]
    /\ loop = [t \in Threads |-> "none"]

\* The engine is used as a library by two threads, or by one CLI process,
\* or by the HTTP server's main thread and two connection threads.
Init ==
    /\ InitEngine
    /\ assets_dir = DefaultDir
    /\ host \in {"lib", "cli", "http"}
    /\ callers = CASE host = "lib" -> {"t1", "t2"}
                   [] host = "cli" -> {MainThread}
                   [] host = "http" -> Threads

\* ------------------------------------------------- calls made by a caller

Begin(t, o, first) ==
    /\ host = "lib"
    /\ pc[t] = "idle"
    /\ t \in callers
    /\ op' = [op EXCEPT ![t] = o]
    /\ pc' = [pc EXCEPT ![t] = first]

CallTick(t) ==
    /\ nTickCalls < MaxTick
    /\ Begin(t, "tick", "tick_acquire")
    /\ nTickCalls' = nTickCalls + 1
    /\ UNCHANGED << engineVars, fs, hostVars, frontVars, tmp, result, path, listed, seen, loop,
                    scanned >>

CallState(t) ==
    /\ Begin(t, "state", "state_acquire")
    /\ UNCHANGED << engineVars, fs, hostVars, frontVars, tmp, result, histVars >>

CallLoadAssets(t) ==
    /\ Begin(t, "load_assets", "load_isdir")
    /\ UNCHANGED << engineVars, fs, hostVars, frontVars, tmp, result, histVars >>

CallRun(t) ==
    /\ Begin(t, "run", "run_set")
    /\ UNCHANGED << engineVars, fs, hostVars, frontVars, tmp, result, histVars >>

CallStop(t) ==
    /\ Begin(t, "stop", "stop_set")
    /\ UNCHANGED << engineVars, fs, hostVars, frontVars, tmp, result, histVars >>

\* ------------------------------------------------------ TwinEngine.tick

\* Mutant of TickAcquire: the lock does not exclude (no wait for the holder).
TickAcquireNoWait(t) ==
    /\ pc[t] = "tick_acquire"
    /\ lock' = t
    /\ pc' = [pc EXCEPT ![t] = "tick_load"]
    /\ UNCHANGED << tick_count, assets_count, running, fs, hostVars, frontVars,
                    localVars, histVars,
                    assets_dir >>

\* with self._lock:  (entry; blocks while another thread holds the lock)
TickAcquire(t) ==
    /\ pc[t] = "tick_acquire"
    /\ lock = NoThread
    /\ lock' = t
    /\ pc' = [pc EXCEPT ![t] = "tick_load"]
    /\ UNCHANGED << tick_count, assets_count, running, fs, hostVars, frontVars,
                    localVars, histVars,
                    assets_dir >>

\* self.tick_count += 1  (the load of the attribute)
TickLoad(t) ==
    /\ pc[t] = "tick_load"
    /\ tmp' = [tmp EXCEPT ![t] = tick_count]
    /\ pc' = [pc EXCEPT ![t] = "tick_store"]
    /\ UNCHANGED << engineVars, fs, hostVars, frontVars, op, result, histVars >>

\* Mutant of TickStore: the increment is 2.
TickStoreTwice(t) ==
    /\ pc[t] = "tick_store"
    /\ tick_count' = tmp[t] + 2
    /\ Record(tmp[t] + 2, assets_count)
    /\ tmp' = [tmp EXCEPT ![t] = 0]
    /\ pc' = [pc EXCEPT ![t] = "tick_release"]
    /\ UNCHANGED << assets_count, lock, running, fs, hostVars, frontVars, op,
                    result, path, listed, nTickCalls, loop,
                    assets_dir, scanned >>

\* self.tick_count += 1  (the add and the store)
TickStore(t) ==
    /\ pc[t] = "tick_store"
    /\ tick_count' = tmp[t] + 1
    /\ Record(tmp[t] + 1, assets_count)
    /\ tmp' = [tmp EXCEPT ![t] = 0]
    /\ pc' = [pc EXCEPT ![t] = "tick_release"]
    /\ UNCHANGED << assets_count, lock, running, fs, hostVars, frontVars, op, result,
                    path, listed, nTickCalls, loop,
                    assets_dir, scanned >>

\* Mutant of TickRelease: the loop's tick() keeps the lock over the sleep.
TickReleaseKeptByLoop(t) ==
    /\ pc[t] = "tick_release"
    /\ lock' = IF op[t] = "run" THEN lock ELSE NoThread
    /\ Goto(t, AfterReturn(t, "tick"))
    /\ UNCHANGED << tick_count, assets_count, running, fs, hostVars, frontVars, tmp,
                    result, histVars,
                    assets_dir >>

\* with self._lock:  (exit), and the return
TickRelease(t) ==
    /\ pc[t] = "tick_release"
    /\ lock' = NoThread
    /\ Goto(t, AfterReturn(t, "tick"))
    /\ UNCHANGED << tick_count, assets_count, running, fs, hostVars, frontVars, tmp,
                    result, histVars,
                    assets_dir >>

\* ----------------------------------------------------- TwinEngine.state

\* Mutant of StateAcquire: the snapshot does not wait for the lock's holder.
StateAcquireNoWait(t) ==
    /\ pc[t] = "state_acquire"
    /\ lock' = t
    /\ pc' = [pc EXCEPT ![t] = "state_read_tick"]
    /\ seen' = [seen EXCEPT ![t] = {<<tick_count, assets_count>>}]
    /\ UNCHANGED << tick_count, assets_count, running, fs, hostVars, frontVars,
                    localVars, path, listed, nTickCalls, loop,
                    assets_dir, scanned >>

\* with self._lock:  (entry; blocks while another thread holds the lock)
StateAcquire(t) ==
    /\ pc[t] = "state_acquire"
    /\ lock = NoThread
    /\ lock' = t
    /\ pc' = [pc EXCEPT ![t] = "state_read_tick"]
    /\ seen' = [seen EXCEPT ![t] = {<<tick_count, assets_count>>}]
    /\ UNCHANGED << tick_count, assets_count, running, fs, hostVars, frontVars,
                    localVars, path, listed, nTickCalls, loop,
                    assets_dir, scanned >>

\* {"tick": self.tick_count, ...
StateReadTick(t) ==
    /\ pc[t] = "state_read_tick"
    /\ tmp' = [tmp EXCEPT ![t] = tick_count]
    /\ pc' = [pc EXCEPT ![t] = "state_read_assets"]
    /\ UNCHANGED << engineVars, fs, hostVars, frontVars, op, result, histVars >>

\* Mutant of StateReadAssets: the snapshot rescans the directory first.
StateReadAssetsRefresh(t) ==
    /\ pc[t] = "state_read_assets"
    /\ \E n \in IF fs.kind = "dir"
                 THEN {CountAssets(l) : l \in Listings(fs.entries)} ELSE {0} :
          /\ assets_count' = n
          /\ result' = [result EXCEPT ![t] = [tick |-> tmp[t], assets |-> n]]
          /\ Record(tick_count, n)
    /\ tmp' = [tmp EXCEPT ![t] = 0]
    /\ pc' = [pc EXCEPT ![t] = "state_release"]
    /\ UNCHANGED << tick_count, lock, running, fs, hostVars, frontVars, op,
                    path, listed, nTickCalls, loop,
                    assets_dir, scanned >>

\* ... "assets": self.assets_count}
StateReadAssets(t) ==
    /\ pc[t] = "state_read_assets"
    /\ result' = [result EXCEPT ![t] = [tick |-> tmp[t], assets |-> assets_count]]
    /\ tmp' = [tmp EXCEPT ![t] = 0]
    /\ pc' = [pc EXCEPT ![t] = "state_release"]
    /\ UNCHANGED << engineVars, fs, hostVars, frontVars, op, histVars >>

\* Mutant of StateRelease: state() returns with the lock still held.
StateReleaseKeepsLock(t) ==
    /\ pc[t] = "state_release"
    /\ lock' = lock
    /\ pc' = [pc EXCEPT ![t] = "state_return"]
    /\ UNCHANGED << tick_count, assets_count, running, fs, hostVars, frontVars,
                    localVars, histVars,
                    assets_dir >>

\* with self._lock:  (exit)
StateRelease(t) ==
    /\ pc[t] = "state_release"
    /\ lock' = NoThread
    /\ pc' = [pc EXCEPT ![t] = "state_return"]
    /\ UNCHANGED << tick_count, assets_count, running, fs, hostVars, frontVars,
                    localVars, histVars,
                    assets_dir >>

\* return <the mapping>  (a direct caller drops it)
StateReturn(t) ==
    /\ pc[t] = "state_return"
    /\ Goto(t, AfterReturn(t, "state"))
    /\ result' = [result EXCEPT ![t] =
                    IF AfterReturn(t, "state") = "idle" THEN NoResult ELSE @]
    /\ seen' = [seen EXCEPT ![t] = {}]
    /\ UNCHANGED << engineVars, fs, hostVars, frontVars, tmp, path, listed, nTickCalls, loop,
                    scanned >>

\* ----------------------------------------------- TwinEngine.load_assets

\* Mutant of LoadIsdir: a path that is no directory is replaced by the default.
LoadIsdirFallsBack(t) ==
    /\ pc[t] = "load_isdir"
    /\ pc' = [pc EXCEPT ![t] =
                IF fs.kind \in {"dir", "denied"} THEN "load_listdir"
                                                 ELSE "load_absent"]
    /\ assets_dir' = IF fs.kind \in {"dir", "denied"} THEN assets_dir
                                                      ELSE DefaultDir
    /\ scanned' = [scanned EXCEPT ![t] = assets_dir]
    /\ UNCHANGED << tick_count, assets_count, lock, running, fs, hostVars,
                    frontVars, localVars, path, listed, seen, nTickCalls, loop >>

\* if not os.path.isdir(self.assets_dir):
LoadIsdir(t) ==
    /\ pc[t] = "load_isdir"
    /\ pc' = [pc EXCEPT ![t] =
                IF fs.kind \in {"dir", "denied"} THEN "load_listdir"
                                                 ELSE "load_absent"]
    /\ scanned' = [scanned EXCEPT ![t] = assets_dir]
    /\ UNCHANGED << engineVars, fs, hostVars, frontVars, localVars, path,
                    listed, seen, nTickCalls, loop >>

\* Mutant of LoadAbsent: a missing directory also resets the clock.
LoadAbsentResetTick(t) ==
    /\ pc[t] = "load_absent"
    /\ assets_count' = 0
    /\ tick_count' = 0
    /\ Record(0, 0)
    /\ path' = [path EXCEPT ![t] = "absent"]
    /\ pc' = [pc EXCEPT ![t] = "load_return"]
    /\ UNCHANGED << lock, running, fs, hostVars, frontVars, localVars,
                    listed, nTickCalls, loop,
                    assets_dir, scanned >>

\*     self.assets_count = 0
LoadAbsent(t) ==
    /\ pc[t] = "load_absent"
    /\ assets_count' = 0
    /\ Record(tick_count, 0)
    /\ path' = [path EXCEPT ![t] = "absent"]
    /\ pc' = [pc EXCEPT ![t] = "load_return"]
    /\ UNCHANGED << tick_count, lock, running, fs, hostVars, frontVars, localVars,
                    listed, nTickCalls, loop,
                    assets_dir, scanned >>

\* Mutant of LoadListdir: no except clause, the OSError leaves load_assets().
LoadListdirUncaught(t) ==
    /\ pc[t] = "load_listdir"
    /\ IF fs.kind = "dir"
       THEN /\ \E listing \in Listings(fs.entries) :
                  tmp' = [tmp EXCEPT ![t] = CountAssets(listing)]
            /\ listed' = [listed EXCEPT ![t] = fs.entries]
            /\ pc' = [pc EXCEPT ![t] = "load_store"]
       ELSE /\ pc' = [pc EXCEPT ![t] = "raised"]
            /\ UNCHANGED << tmp, listed >>
    /\ scanned' = [scanned EXCEPT ![t] = assets_dir]
    /\ UNCHANGED << engineVars, fs, hostVars, frontVars, op, result, path, seen,
                    nTickCalls, loop >>

\* try: len([f for f in os.listdir(self.assets_dir) if not f.startswith(".")])
\* os.listdir raises OSError when the path is no listable directory (any
\* more); the except clause takes every Exception.
LoadListdir(t) ==
    /\ pc[t] = "load_listdir"
    /\ IF fs.kind = "dir"
       THEN /\ \E listing \in Listings(fs.entries) :
                  tmp' = [tmp EXCEPT ![t] = CountAssets(listing)]
            /\ listed' = [listed EXCEPT ![t] = fs.entries]
            /\ pc' = [pc EXCEPT ![t] = "load_store"]
       ELSE /\ pc' = [pc EXCEPT ![t] = "load_except"]
            /\ UNCHANGED << tmp, listed >>
    /\ scanned' = [scanned EXCEPT ![t] = assets_dir]
    /\ UNCHANGED << engineVars, fs, hostVars, frontVars, op, result, path, seen,
                    nTickCalls, loop >>

\* self.assets_count = <the count>
LoadStore(t) ==
    /\ pc[t] = "load_store"
    /\ assets_count' = tmp[t]
    /\ Record(tick_count, tmp[t])
    /\ tmp' = [tmp EXCEPT ![t] = 0]
    /\ path' = [path EXCEPT ![t] = "listed"]
    /\ pc' = [pc EXCEPT ![t] = "load_return"]
    /\ UNCHANGED << tick_count, lock, running, fs, hostVars, frontVars, op, result,
                    listed, nTickCalls, loop,
                    assets_dir, scanned >>

\* Mutant of LoadExcept: a failed listing is marked by -1.
LoadExceptMinusOne(t) ==
    /\ pc[t] = "load_except"
    /\ assets_count' = -1
    /\ Record(tick_count, -1)
    /\ path' = [path EXCEPT ![t] = "except"]
    /\ pc' = [pc EXCEPT ![t] = "load_return"]
    /\ UNCHANGED << tick_count, lock, running, fs, hostVars, frontVars,
                    localVars, listed, nTickCalls, loop,
                    assets_dir, scanned >>

\* Mutant of LoadExcept: a failed listing also resets the clock.
LoadExceptResetsTick(t) ==
    /\ pc[t] = "load_except"
    /\ assets_count' = 0
    /\ tick_count' = 0
    /\ Record(0, 0)
    /\ path' = [path EXCEPT ![t] = "except"]
    /\ pc' = [pc EXCEPT ![t] = "load_return"]
    /\ UNCHANGED << lock, running, fs, hostVars, frontVars, localVars,
                    listed, nTickCalls, loop, assets_dir, scanned >>

\* except Exception: self.assets_count = 0
LoadExcept(t) ==
    /\ pc[t] = "load_except"
    /\ assets_count' = 0
    /\ Record(tick_count, 0)
    /\ path' = [path EXCEPT ![t] = "except"]
    /\ pc' = [pc EXCEPT ![t] = "load_return"]
    /\ UNCHANGED << tick_count, lock, running, fs, hostVars, frontVars, localVars,
                    listed, nTickCalls, loop,
                    assets_dir, scanned >>

\* return  (explicit on line 16, implicit at the end of the method)
LoadReturn(t) ==
    /\ pc[t] = "load_return"
    /\ Goto(t, AfterReturn(t, "load_assets"))
    /\ path' = [path EXCEPT ![t] = None]
    /\ listed' = [listed EXCEPT ![t] = {}]
    /\ scanned' = [scanned EXCEPT ![t] = None]
    /\ UNCHANGED << engineVars, fs, hostVars, frontVars, tmp, result, seen,
                    nTickCalls, loop >>

\* ------------------------------------------- TwinEngine.run / stop

\* Mutant of RunSet: run() leaves the flag as it finds it.
RunSetKeepsFlag(t) ==
    /\ pc[t] = "run_set"
    /\ running' = running
    /\ loop' = [u \in Threads |->
                 IF u = t THEN "live"
                 ELSE IF loop[u] = "stopped" THEN "revived" ELSE loop[u]]
    /\ pc' = [pc EXCEPT ![t] = "run_check"]
    /\ UNCHANGED << tick_count, assets_count, lock, fs, hostVars, frontVars, localVars,
                    path, listed, seen, nTickCalls,
                    assets_dir, scanned >>

\* self._running = True
RunSet(t) ==
    /\ pc[t] = "run_set"
    /\ running' = TRUE
    /\ loop' = [u \in Threads |->
                 IF u = t THEN "live"
                 ELSE IF loop[u] = "stopped" THEN "revived" ELSE loop[u]]
    /\ pc' = [pc EXCEPT ![t] = "run_check"]
    /\ UNCHANGED << tick_count, assets_count, lock, fs, hostVars, frontVars, localVars,
                    path, listed, seen, nTickCalls,
                    assets_dir, scanned >>

\* Mutant of RunCheckTrue: the loop goes on whatever the flag.
RunCheckTrueAnyFlag(t) ==
    /\ pc[t] = "run_check"
    /\ nTickCalls < MaxTick
    /\ nTickCalls' = nTickCalls + 1
    /\ pc' = [pc EXCEPT ![t] = "tick_acquire"]
    /\ UNCHANGED << engineVars, fs, hostVars, frontVars, localVars, path, listed, seen, loop,
                    scanned >>

\* while self._running:  (true: call self.tick())
RunCheckTrue(t) ==
    /\ pc[t] = "run_check"
    /\ running
    /\ nTickCalls < MaxTick
    /\ nTickCalls' = nTickCalls + 1
    /\ pc' = [pc EXCEPT ![t] = "tick_acquire"]
    /\ UNCHANGED << engineVars, fs, hostVars, frontVars, localVars, path, listed, seen, loop,
                    scanned >>

\* while self._running:  (false: run() returns)
RunCheckFalse(t) ==
    /\ pc[t] = "run_check"
    /\ ~running
    /\ Goto(t, "idle")
    /\ loop' = [loop EXCEPT ![t] = "none"]
    /\ UNCHANGED << engineVars, fs, hostVars, frontVars, tmp, result, path,
                    listed, seen, nTickCalls,
                    scanned >>

\* time.sleep(interval)  (the sleep ends)
RunSleep(t) ==
    /\ pc[t] = "run_sleep"
    /\ pc' = [pc EXCEPT ![t] = "run_check"]
    /\ UNCHANGED << engineVars, fs, hostVars, frontVars, localVars, histVars >>

\* History: a stop() reaches every loop that has set the flag.
Stopped ==
    loop' = [u \in Threads |->
                IF loop[u] \in {"live", "revived"} THEN "stopped" ELSE loop[u]]

\* Mutant of StopSet: the flag is toggled.
StopSetToggle(t) ==
    /\ pc[t] = "stop_set"
    /\ running' = ~running
    /\ Stopped
    /\ Goto(t, "stop_return")
    /\ UNCHANGED << tick_count, assets_count, lock, fs, hostVars, frontVars,
                    tmp, result, path, listed, seen, nTickCalls,
                    assets_dir, scanned >>

\* Mutant of StopSet: the assignment misses the flag the loop reads.
StopSetOtherFlag(t) ==
    /\ pc[t] = "stop_set"
    /\ running' = running
    /\ Stopped
    /\ Goto(t, "stop_return")
    /\ UNCHANGED << tick_count, assets_count, lock, fs, hostVars, frontVars,
                    tmp, result, path, listed, seen, nTickCalls,
                    assets_dir, scanned >>

\* self._running = False
StopSet(t) ==
    /\ pc[t] = "stop_set"
    /\ running' = FALSE
    /\ Stopped
    /\ Goto(t, "stop_return")
    /\ UNCHANGED << tick_count, assets_count, lock, fs, hostVars, frontVars,
                    tmp, result, path, listed, seen, nTickCalls,
                    assets_dir, scanned >>

\* stop() returns.
StopReturn(t) ==
    /\ pc[t] = "stop_return"
    /\ Goto(t, "idle")
    /\ UNCHANGED << engineVars, fs, hostVars, frontVars, tmp, result, histVars >>

\* --------------------------------------------- src/src/cli/main.py

\* main(): parse_args, engine = TwinEngine(), dispatch on args.cmd. Either
\* command starts with engine.load_assets().
CliMain(t) ==
    /\ host = "cli"
    /\ t = MainThread
    /\ pc[t] = "idle"
    /\ \E cmd \in {"cmd_state", "cmd_run"} :
          /\ op' = [op EXCEPT ![t] = cmd]
          /\ IF cmd = "cmd_run"
             THEN \E ticks \in TicksArgs : arg' = [arg EXCEPT ![t] = ticks]
             ELSE UNCHANGED arg
    /\ pc' = [pc EXCEPT ![t] = "load_isdir"]
    /\ UNCHANGED << engineVars, fs, hostVars, tmp, result, iter, out, histVars, wire >>

\* Mutant of CmdRunLoopTick: the loop runs once more than ticks.
CmdRunLoopTickInclusive(t) ==
    /\ pc[t] = "cmd_run_loop"
    /\ iter[t] <= arg[t]
    /\ nTickCalls < MaxTick
    /\ nTickCalls' = nTickCalls + 1
    /\ pc' = [pc EXCEPT ![t] = "tick_acquire"]
    /\ UNCHANGED << engineVars, fs, hostVars, localVars, frontVars, path,
                    listed, seen, loop,
                    scanned >>

\* Mutant of CmdRunLoopTick: the loop counts until it meets ticks.
CmdRunLoopTickUntilEqual(t) ==
    /\ pc[t] = "cmd_run_loop"
    /\ iter[t] # arg[t]
    /\ nTickCalls < MaxTick
    /\ nTickCalls' = nTickCalls + 1
    /\ pc' = [pc EXCEPT ![t] = "tick_acquire"]
    /\ UNCHANGED << engineVars, fs, hostVars, localVars, frontVars, path,
                    listed, seen, loop,
                    scanned >>

\* cmd_run: for _ in range(ticks):  (another iteration: engine.tick())
CmdRunLoopTick(t) ==
    /\ pc[t] = "cmd_run_loop"
    /\ iter[t] < arg[t]
    /\ nTickCalls < MaxTick
    /\ nTickCalls' = nTickCalls + 1
    /\ pc' = [pc EXCEPT ![t] = "tick_acquire"]
    /\ UNCHANGED << engineVars, fs, hostVars, localVars, frontVars, path,
                    listed, seen, loop,
                    scanned >>

\* cmd_run: time.sleep(interval)  (the sleep ends)
CmdRunSleep(t) ==
    /\ pc[t] = "cmd_run_sleep"
    /\ iter' = [iter EXCEPT ![t] = @ + 1]
    /\ pc' = [pc EXCEPT ![t] = "cmd_run_loop"]
    /\ UNCHANGED << engineVars, fs, hostVars, localVars, arg, out, histVars, wire >>

\* cmd_run: the range is exhausted: s = engine.state()
CmdRunLoopEnd(t) ==
    /\ pc[t] = "cmd_run_loop"
    /\ iter[t] >= arg[t]
    /\ pc' = [pc EXCEPT ![t] = "state_acquire"]
    /\ UNCHANGED << engineVars, fs, hostVars, localVars, frontVars, histVars >>

\* A print: the line goes to standard output.
PrintLine(t, line, next) ==
    /\ out' = [out EXCEPT ![t] = Append(@, line)]
    /\ pc' = [pc EXCEPT ![t] = next]
    /\ UNCHANGED << engineVars, fs, hostVars, localVars, arg, iter, histVars, wire >>

\* Mutant of CmdRunPrintDone: the line reports the clock, not the argument.
CmdRunPrintDoneClock(t) ==
    /\ pc[t] = "cmd_run_print_done"
    /\ PrintLine(t, <<"done ticks", result[t].tick>>, "cmd_run_print_assets")

\* print(f"done ticks: {ticks}")
CmdRunPrintDone(t) ==
    /\ pc[t] = "cmd_run_print_done"
    /\ PrintLine(t, <<"done ticks", arg[t]>>, "cmd_run_print_assets")

\* print(f"assets: {s['assets']}")
CmdRunPrintAssets(t) ==
    /\ pc[t] = "cmd_run_print_assets"
    /\ PrintLine(t, <<"assets", result[t].assets>>, "cmd_run_print_tick")

\* print(f"tick: {s['tick']}"), and the process ends
CmdRunPrintTick(t) ==
    /\ pc[t] = "cmd_run_print_tick"
    /\ PrintLine(t, <<"tick", result[t].tick>>, "exited")

\* Mutant of CmdStatePrintStatus: an engine without assets is reported.
CmdStatePrintStatusOrError(t) ==
    /\ pc[t] = "cmd_state_print_status"
    /\ PrintLine(t, IF result[t].assets = 0 THEN <<"error", "no assets">>
                                            ELSE <<"status", "ok">>,
                 "cmd_state_print_assets")

\* print("status: ok")
CmdStatePrintStatus(t) ==
    /\ pc[t] = "cmd_state_print_status"
    /\ PrintLine(t, <<"status", "ok">>, "cmd_state_print_assets")

\* print(f"assets: {s['assets']}")
CmdStatePrintAssets(t) ==
    /\ pc[t] = "cmd_state_print_assets"
    /\ PrintLine(t, <<"assets", result[t].assets>>, "cmd_state_print_tick")

\* print(f"tick: {s['tick']}"), and the process ends
CmdStatePrintTick(t) ==
    /\ pc[t] = "cmd_state_print_tick"
    /\ PrintLine(t, <<"tick", result[t].tick>>, "exited")

\* ------------------------------------------- src/src/api/server.py

\* A str as the sequence of its characters, for the strs the server sends.
Chars(s) ==
    CASE s = "status" -> <<"s", "t", "a", "t", "u", "s">>
      [] s = "ok" -> <<"o", "k">>
      [] s = "error" -> <<"e", "r", "r", "o", "r">>
      [] s = "not found" -> <<"n", "o", "t", " ", "f", "o", "u", "n", "d">>
      [] s = "tick" -> <<"t", "i", "c", "k">>
      [] s = "assets" -> <<"a", "s", "s", "e", "t", "s">>

DigitChar(d) == <<"0", "1", "2", "3", "4", "5", "6", "7", "8", "9">>[d + 1]

RECURSIVE Digits(_)
Digits(n) ==
    IF n < 10 THEN <<DigitChar(n)>>
    ELSE Digits(n \div 10) \o <<DigitChar(n % 10)>>

\* str(n), and json.dumps of an int
IntStr(n) == IF n < 0 THEN <<"-">> \o Digits(-n) ELSE Digits(n)

\* The keys of a dict in the order they were inserted.
KeysOf(obj) ==
    CASE DOMAIN obj = {"status"} -> <<"status">>
      [] DOMAIN obj = {"error"} -> <<"error">>
      [] DOMAIN obj = {"tick", "assets"} -> <<"tick", "assets">>

Quoted(s) == <<"\"">> \o Chars(s) \o <<"\"">>

\* json.dumps of a value: the counters are ints, the other values strs.
DumpsValue(k, v) == IF k \in {"tick", "assets"} THEN IntStr(v) ELSE Quoted(v)

RECURSIVE DumpsItems(_, _)
DumpsItems(obj, keys) ==
    IF keys = << >> THEN << >>
    ELSE Quoted(Head(keys)) \o <<":", " ">> \o DumpsValue(Head(keys), obj[Head(keys)])
         \o (IF Tail(keys) = << >> THEN << >> ELSE <<",", " ">>)
         \o DumpsItems(obj, Tail(keys))

\* json.dumps(obj) with its default separators ", " and ": "
Dumps(obj) == <<"{">> \o DumpsItems(obj, KeysOf(obj)) \o <<"}">>

\* The code points of the characters json.dumps writes for these objects.
OrdTable ==
    [c \in {" ", "\"", ",", "-", ":", "{", "}"} |->
        CASE c = " " -> 32 [] c = "\"" -> 34 [] c = "," -> 44 [] c = "-" -> 45
          [] c = ":" -> 58 [] c = "{" -> 123 [] c = "}" -> 125]
    @@ [c \in {"0", "1", "2", "3", "4", "5", "6", "7", "8", "9"} |->
        48 + (CHOOSE d \in 0..9 : DigitChar(d) = c)]
    @@ [c \in {"a", "c", "d", "e", "f", "i", "k"} |->
        CASE c = "a" -> 97 [] c = "c" -> 99 [] c = "d" -> 100 [] c = "e" -> 101
          [] c = "f" -> 102 [] c = "i" -> 105 [] c = "k" -> 107]
    @@ [c \in {"n", "o", "r", "s", "t", "u"} |->
        CASE c = "n" -> 110 [] c = "o" -> 111 [] c = "r" -> 114
          [] c = "s" -> 115 [] c = "t" -> 116 [] c = "u" -> 117]

\* ord(c)
Ord(c) == OrdTable[c]

\* The UTF-8 bytes of one character: one byte below 128, else two (below
\* 2048; json.dumps escapes what is not ASCII, so one byte it is).
Utf8(c) ==
    IF Ord(c) < 128 THEN <<Ord(c)>>
    ELSE <<192 + (Ord(c) \div 64), 128 + (Ord(c) % 64)>>

\* The bytes of the characters of s from the i-th on.
RECURSIVE EncodeFrom(_, _)
EncodeFrom(s, i) ==
    IF i > Len(s) THEN << >> ELSE Utf8(s[i]) \o EncodeFrom(s, i + 1)

\* str.encode("utf-8")
Encode(s) == EncodeFrom(s, 1)

\* Module level: engine = TwinEngine(); engine.load_assets()
ServerStart(t) ==
    /\ host = "http"
    /\ t = MainThread
    /\ pc[t] = "idle"
    /\ op' = [op EXCEPT ![t] = "server"]
    /\ pc' = [pc EXCEPT ![t] = "load_isdir"]
    /\ UNCHANGED << engineVars, fs, hostVars, tmp, result, frontVars, histVars >>

\* main(): ThreadingHTTPServer((host, port), Handler); print; serve_forever()
ServerBind(t) ==
    /\ pc[t] = "server_bind"
    /\ PrintLine(t, <<"listening", "/health">>, "serve_forever")

\* Mutant of CallDoGet: connections are served while the module is loading.
CallDoGetEarly(t) ==
    /\ host = "http"
    /\ t \in callers \ {MainThread}
    /\ pc[t] = "idle"
    /\ op' = [op EXCEPT ![t] = "do_GET"]
    /\ \E p \in Paths : arg' = [arg EXCEPT ![t] = p]
    /\ pc' = [pc EXCEPT ![t] = "get_route"]
    /\ UNCHANGED << engineVars, fs, hostVars, tmp, result, iter, out, histVars, wire >>

\* A connection is accepted and its thread calls Handler.do_GET.
CallDoGet(t) ==
    /\ host = "http"
    /\ t \in callers \ {MainThread}
    /\ pc[MainThread] = "serve_forever"
    /\ pc[t] = "idle"
    /\ op' = [op EXCEPT ![t] = "do_GET"]
    /\ \E p \in Paths : arg' = [arg EXCEPT ![t] = p]
    /\ pc' = [pc EXCEPT ![t] = "get_route"]
    /\ UNCHANGED << engineVars, fs, hostVars, tmp, result, iter, out, histVars, wire >>

\* Mutant of GetRoute: the query string is dropped before the comparisons.
GetRouteDropsQuery(t) ==
    /\ pc[t] = "get_route"
    /\ pc' = [pc EXCEPT ![t] =
                IF arg[t] = "/" \/ arg[t] = "/health" THEN "get_send_ok"
                ELSE IF arg[t] \in {"/state", "/state?x=1"} THEN "state_acquire"
                ELSE "get_send_404"]
    /\ UNCHANGED << engineVars, fs, hostVars, localVars, frontVars, histVars >>

\* Mutant of GetRoute: a request for "/state" loads the assets again.
GetRouteStateReloads(t) ==
    /\ pc[t] = "get_route"
    /\ pc' = [pc EXCEPT ![t] =
                IF arg[t] = "/" \/ arg[t] = "/health" THEN "get_send_ok"
                ELSE IF arg[t] = "/state" THEN "load_isdir"
                ELSE "get_send_404"]
    /\ UNCHANGED << engineVars, fs, hostVars, localVars, frontVars, histVars >>

\* do_GET: the comparisons of self.path
GetRoute(t) ==
    /\ pc[t] = "get_route"
    /\ pc' = [pc EXCEPT ![t] =
                IF arg[t] = "/" \/ arg[t] = "/health" THEN "get_send_ok"
                ELSE IF arg[t] = "/state" THEN "state_acquire"
                ELSE "get_send_404"]
    /\ UNCHANGED << engineVars, fs, hostVars, localVars, frontVars, histVars >>

\* Mutant of SendJson: Content-Length is taken from the object, not the bytes.
SendJsonLenOfObj(t, obj, status) ==
    /\ out' = [out EXCEPT ![t] = Append(@, [status |-> status, body |-> obj])]
    /\ \E text \in {Dumps(obj)} : \E data \in {Encode(text)} :
           wire' = [wire EXCEPT ![t] =
                      Append(@, [ctype |-> "application/json",
                                 clen |-> IntStr(Cardinality(DOMAIN obj)),
                                 data |-> data])]
    /\ pc' = [pc EXCEPT ![t] = "get_done"]
    /\ UNCHANGED << engineVars, fs, hostVars, localVars, arg, iter, histVars >>

\* Handler._send_json(obj, status): the response goes to the client.
SendJson(t, obj, status) ==
    /\ out' = [out EXCEPT ![t] = Append(@, [status |-> status, body |-> obj])]
    /\ \E text \in {Dumps(obj)} : \E data \in {Encode(text)} :
           wire' = [wire EXCEPT ![t] =
                      Append(@, [ctype |-> "application/json",
                                 clen |-> IntStr(Len(data)),
                                 data |-> data])]
    /\ pc' = [pc EXCEPT ![t] = "get_done"]
    /\ UNCHANGED << engineVars, fs, hostVars, localVars, arg, iter, histVars >>

\* Mutant of GetSendOk: the health check advances the clock.
GetSendOkTicks(t) ==
    /\ pc[t] = "get_send_ok"
    /\ tick_count' = IF tick_count < MaxTick THEN tick_count + 1 ELSE tick_count
    /\ out' = [out EXCEPT ![t] =
                 Append(@, [status |-> 200, body |-> [status |-> "ok"]])]
    /\ \E text \in {Dumps([status |-> "ok"])} : \E data \in {Encode(text)} :
           wire' = [wire EXCEPT ![t] =
                      Append(@, [ctype |-> "application/json",
                                 clen |-> IntStr(Len(data)),
                                 data |-> data])]
    /\ pc' = [pc EXCEPT ![t] = "get_done"]
    /\ UNCHANGED << assets_count, lock, running, fs, hostVars, localVars,
                    arg, iter, histVars, assets_dir >>

\* self._send_json({"status": "ok"}); return
GetSendOk(t) ==
    /\ pc[t] = "get_send_ok"
    /\ SendJson(t, [status |-> "ok"], 200)

\* self._send_json(engine.state()); return
GetSendState(t) ==
    /\ pc[t] = "get_send_state"
    /\ SendJson(t, result[t], 200)

\* self._send_json({"error": "not found"}, 404)
GetSendNotFound(t) ==
    /\ pc[t] = "get_send_404"
    /\ SendJson(t, [error |-> "not found"], 404)

\* do_GET returns and the connection's thread ends.
GetFinish(t) ==
    /\ pc[t] = "get_done"
    /\ Goto(t, "idle")
    /\ result' = [result EXCEPT ![t] = NoResult]
    /\ arg' = [arg EXCEPT ![t] = None]
    /\ out' = [out EXCEPT ![t] = << >>]
    /\ wire' = [wire EXCEPT ![t] = << >>]
    /\ UNCHANGED << engineVars, fs, hostVars, tmp, iter, histVars >>

\* ------------------------------------------------------- the environment

\* Another process changes what assets_dir names: entries come and go, the
\* directory is removed, replaced by a file, made unreadable, or created.
FsChange ==
    /\ fs' \in FsStates \ {fs}
    /\ UNCHANGED << engineVars, hostVars, frontVars, pc, localVars, histVars >>

\* ------------------------------------------------------------------ Next

Next ==
    \/ \E t \in Threads : CallTick(t)
    \/ \E t \in Threads : CallState(t)
    \/ \E t \in Threads : CallLoadAssets(t)
    \/ \E t \in Threads : CallRun(t)
    \/ \E t \in Threads : CallStop(t)
    \/ \E t \in Threads : TickAcquire(t)
    \/ \E t \in Threads : TickLoad(t)
    \/ \E t \in Threads : TickStore(t)
    \/ \E t \in Threads : TickRelease(t)
    \/ \E t \in Threads : StateAcquire(t)
    \/ \E t \in Threads : StateReadTick(t)
    \/ \E t \in Threads : StateReadAssets(t)
    \/ \E t \in Threads : StateRelease(t)
    \/ \E t \in Threads : StateReturn(t)
    \/ \E t \in Threads : LoadIsdir(t)
    \/ \E t \in Threads : LoadAbsent(t)
    \/ \E t \in Threads : LoadListdir(t)
    \/ \E t \in Threads : LoadStore(t)
    \/ \E t \in Threads : LoadExcept(t)
    \/ \E t \in Threads : LoadReturn(t)
    \/ \E t \in Threads : RunSet(t)
    \/ \E t \in Threads : RunCheckTrue(t)
    \/ \E t \in Threads : RunCheckFalse(t)
    \/ \E t \in Threads : RunSleep(t)
    \/ \E t \in Threads : StopSet(t)
    \/ \E t \in Threads : StopReturn(t)
    \/ \E t \in Threads : CliMain(t)
    \/ \E t \in Threads : CmdRunLoopTick(t)
    \/ \E t \in Threads : CmdRunSleep(t)
    \/ \E t \in Threads : CmdRunLoopEnd(t)
    \/ \E t \in Threads : CmdRunPrintDone(t)
    \/ \E t \in Threads : CmdRunPrintAssets(t)
    \/ \E t \in Threads : CmdRunPrintTick(t)
    \/ \E t \in Threads : CmdStatePrintStatus(t)
    \/ \E t \in Threads : CmdStatePrintAssets(t)
    \/ \E t \in Threads : CmdStatePrintTick(t)
    \/ \E t \in Threads : ServerStart(t)
    \/ \E t \in Threads : ServerBind(t)
    \/ \E t \in Threads : CallDoGet(t)
    \/ \E t \in Threads : GetRoute(t)
    \/ \E t \in Threads : GetSendOk(t)
    \/ \E t \in Threads : GetSendState(t)
    \/ \E t \in Threads : GetSendNotFound(t)
    \/ \E t \in Threads : GetFinish(t)
    \/ FsChange

Spec == Init /\ [][Next]_vars

\* One caller, one call after the other: every engine method but run(), which
\* only another thread's stop() ends.
InitSeq ==
    /\ InitEngine
    /\ assets_dir = DefaultDir
    /\ host = "lib"
    /\ callers = {MainThread}

NextSeq ==
    \/ \E t \in Threads : CallTick(t)
    \/ \E t \in Threads : CallState(t)
    \/ \E t \in Threads : CallLoadAssets(t)
    \/ \E t \in Threads : CallStop(t)
    \/ \E t \in Threads : TickAcquire(t)
    \/ \E t \in Threads : TickLoad(t)
    \/ \E t \in Threads : TickStore(t)
    \/ \E t \in Threads : TickRelease(t)
    \/ \E t \in Threads : StateAcquire(t)
    \/ \E t \in Threads : StateReadTick(t)
    \/ \E t \in Threads : StateReadAssets(t)
    \/ \E t \in Threads : StateRelease(t)
    \/ \E t \in Threads : StateReturn(t)
    \/ \E t \in Threads : LoadIsdir(t)
    \/ \E t \in Threads : LoadAbsent(t)
    \/ \E t \in Threads : LoadListdir(t)
    \/ \E t \in Threads : LoadStore(t)
    \/ \E t \in Threads : LoadExcept(t)
    \/ \E t \in Threads : LoadReturn(t)
    \/ \E t \in Threads : StopSet(t)
    \/ \E t \in Threads : StopReturn(t)
    \/ FsChange

SpecSeq == InitSeq /\ [][NextSeq]_vars

\* Two threads using the engine (tick, state, run, stop), or the HTTP server
\* with its two connection threads, under fair scheduling: a thread that can
\* take its next step takes it, and a thread waiting for the lock gets it
\* when the lock is free again and again. Callers need not call.
InitFair ==
    /\ InitEngine
    /\ assets_dir = DefaultDir
    /\ host \in {"lib", "http"}
    /\ callers = IF host = "lib" THEN {"t1", "t2"} ELSE Threads

NextFair ==
    \/ \E t \in Threads : CallTick(t)
    \/ \E t \in Threads : CallState(t)
    \/ \E t \in Threads : CallRun(t)
    \/ \E t \in Threads : CallStop(t)
    \/ \E t \in Threads : TickAcquire(t)
    \/ \E t \in Threads : TickLoad(t)
    \/ \E t \in Threads : TickStore(t)
    \/ \E t \in Threads : TickRelease(t)
    \/ \E t \in Threads : StateAcquire(t)
    \/ \E t \in Threads : StateReadTick(t)
    \/ \E t \in Threads : StateReadAssets(t)
    \/ \E t \in Threads : StateRelease(t)
    \/ \E t \in Threads : StateReturn(t)
    \/ \E t \in Threads : LoadIsdir(t)
    \/ \E t \in Threads : LoadAbsent(t)
    \/ \E t \in Threads : LoadListdir(t)
    \/ \E t \in Threads : LoadStore(t)
    \/ \E t \in Threads : LoadExcept(t)
    \/ \E t \in Threads : LoadReturn(t)
    \/ \E t \in Threads : RunSet(t)
    \/ \E t \in Threads : RunCheckTrue(t)
    \/ \E t \in Threads : RunCheckFalse(t)
    \/ \E t \in Threads : RunSleep(t)
    \/ \E t \in Threads : StopSet(t)
    \/ \E t \in Threads : StopReturn(t)
    \/ \E t \in Threads : ServerStart(t)
    \/ \E t \in Threads : ServerBind(t)
    \/ \E t \in Threads : CallDoGet(t)
    \/ \E t \in Threads : GetRoute(t)
    \/ \E t \in Threads : GetSendOk(t)
    \/ \E t \in Threads : GetSendState(t)
    \/ \E t \in Threads : GetSendNotFound(t)
    \/ \E t \in Threads : GetFinish(t)

\* The steps a thread takes by itself once it is in an operation, but for
\* the waits for the lock.
Step(t) ==
    \/ TickLoad(t) \/ TickStore(t) \/ TickRelease(t)
    \/ StateReadTick(t) \/ StateReadAssets(t) \/ StateRelease(t)
    \/ StateReturn(t)
    \/ LoadIsdir(t) \/ LoadAbsent(t) \/ LoadListdir(t) \/ LoadStore(t)
    \/ LoadExcept(t) \/ LoadReturn(t)
    \/ RunSet(t) \/ RunCheckTrue(t) \/ RunCheckFalse(t) \/ RunSleep(t)
    \/ StopSet(t) \/ StopReturn(t)
    \/ ServerBind(t) \/ GetRoute(t) \/ GetSendOk(t) \/ GetSendState(t)
    \/ GetSendNotFound(t) \/ GetFinish(t)

\* Every one of these steps moves the thread, so a step is told by pc.
Fairness ==
    \A t \in Threads :
        /\ WF_pc(Step(t))
        /\ SF_pc(TickAcquire(t))
        /\ SF_pc(StateAcquire(t))

SpecFair == InitFair /\ [][NextFair]_vars /\ Fairness

\* The HTTP server alone: its main thread and two connection threads.
InitHttp ==
    /\ InitEngine
    /\ assets_dir = DefaultDir
    /\ host = "http"
    /\ callers = Threads

NextHttp ==
    \/ \E t \in Threads : ServerStart(t)
    \/ \E t \in Threads : LoadIsdir(t)
    \/ \E t \in Threads : LoadAbsent(t)
    \/ \E t \in Threads : LoadListdir(t)
    \/ \E t \in Threads : LoadStore(t)
    \/ \E t \in Threads : LoadExcept(t)
    \/ \E t \in Threads : LoadReturn(t)
    \/ \E t \in Threads : ServerBind(t)
    \/ \E t \in Threads : CallDoGet(t)
    \/ \E t \in Threads : GetRoute(t)
    \/ \E t \in Threads : StateAcquire(t)
    \/ \E t \in Threads : StateReadTick(t)
    \/ \E t \in Threads : StateReadAssets(t)
    \/ \E t \in Threads : StateRelease(t)
    \/ \E t \in Threads : StateReturn(t)
    \/ \E t \in Threads : GetSendOk(t)
    \/ \E t \in Threads : GetSendState(t)
    \/ \E t \in Threads : GetSendNotFound(t)
    \/ \E t \in Threads : GetFinish(t)
    \/ FsChange

SpecHttp == InitHttp /\ [][NextHttp]_vars

\* One run of the CLI, over the directory as it is when the command runs.
InitCli ==
    /\ InitEngine
    /\ assets_dir = DefaultDir
    /\ host = "cli"
    /\ callers = {MainThread}

NextCli ==
    \/ \E t \in Threads : CliMain(t)
    \/ \E t \in Threads : LoadIsdir(t)
    \/ \E t \in Threads : LoadAbsent(t)
    \/ \E t \in Threads : LoadListdir(t)
    \/ \E t \in Threads : LoadStore(t)
    \/ \E t \in Threads : LoadExcept(t)
    \/ \E t \in Threads : LoadReturn(t)
    \/ \E t \in Threads : CmdRunLoopTick(t)
    \/ \E t \in Threads : TickAcquire(t)
    \/ \E t \in Threads : TickLoad(t)
    \/ \E t \in Threads : TickStore(t)
    \/ \E t \in Threads : TickRelease(t)
    \/ \E t \in Threads : CmdRunSleep(t)
    \/ \E t \in Threads : CmdRunLoopEnd(t)
    \/ \E t \in Threads : StateAcquire(t)
    \/ \E t \in Threads : StateReadTick(t)
    \/ \E t \in Threads : StateReadAssets(t)
    \/ \E t \in Threads : StateRelease(t)
    \/ \E t \in Threads : StateReturn(t)
    \/ \E t \in Threads : CmdRunPrintDone(t)
    \/ \E t \in Threads : CmdRunPrintAssets(t)
    \/ \E t \in Threads : CmdRunPrintTick(t)
    \/ \E t \in Threads : CmdStatePrintStatus(t)
    \/ \E t \in Threads : CmdStatePrintAssets(t)
    \/ \E t \in Threads : CmdStatePrintTick(t)

SpecCli == InitCli /\ [][NextCli]_vars

\* The three hosts again, the library's engine made over either path; the
\* CLI and the server construct TwinEngine() with the default. What the path
\* names stays as it is.
InitDir ==
    /\ InitEngine
    /\ host \in {"lib", "cli", "http"}
    /\ host \in {"cli", "http"} => assets_dir = DefaultDir
    /\ callers = CASE host = "lib" -> {"t1", "t2"}
                   [] host = "cli" -> {MainThread}
                   [] host = "http" -> Threads

NextDir ==
    \/ \E t \in Threads : CallTick(t)
    \/ \E t \in Threads : CallState(t)
    \/ \E t \in Threads : CallLoadAssets(t)
    \/ \E t \in Threads : CallRun(t)
    \/ \E t \in Threads : CallStop(t)
    \/ \E t \in Threads : TickAcquire(t)
    \/ \E t \in Threads : TickLoad(t)
    \/ \E t \in Threads : TickStore(t)
    \/ \E t \in Threads : TickRelease(t)
    \/ \E t \in Threads : StateAcquire(t)
    \/ \E t \in Threads : StateReadTick(t)
    \/ \E t \in Threads : StateReadAssets(t)
    \/ \E t \in Threads : StateRelease(t)
    \/ \E t \in Threads : StateReturn(t)
    \/ \E t \in Threads : LoadIsdir(t)
    \/ \E t \in Threads : LoadAbsent(t)
    \/ \E t \in Threads : LoadListdir(t)
    \/ \E t \in Threads : LoadStore(t)
    \/ \E t \in Threads : LoadExcept(t)
    \/ \E t \in Threads : LoadReturn(t)
    \/ \E t \in Threads : RunSet(t)
    \/ \E t \in Threads : RunCheckTrue(t)
    \/ \E t \in Threads : RunCheckFalse(t)
    \/ \E t \in Threads : RunSleep(t)
    \/ \E t \in Threads : StopSet(t)
    \/ \E t \in Threads : StopReturn(t)
    \/ \E t \in Threads : CliMain(t)
    \/ \E t \in Threads : CmdRunLoopTick(t)
    \/ \E t \in Threads : CmdRunSleep(t)
    \/ \E t \in Threads : CmdRunLoopEnd(t)
    \/ \E t \in Threads : CmdRunPrintDone(t)
    \/ \E t \in Threads : CmdRunPrintAssets(t)
    \/ \E t \in Threads : CmdRunPrintTick(t)
    \/ \E t \in Threads : CmdStatePrintStatus(t)
    \/ \E t \in Threads : CmdStatePrintAssets(t)
    \/ \E t \in Threads : CmdStatePrintTick(t)
    \/ \E t \in Threads : ServerStart(t)
    \/ \E t \in Threads : ServerBind(t)
    \/ \E t \in Threads : CallDoGet(t)
    \/ \E t \in Threads : GetRoute(t)
    \/ \E t \in Threads : GetSendOk(t)
    \/ \E t \in Threads : GetSendState(t)
    \/ \E t \in Threads : GetSendNotFound(t)
    \/ \E t \in Threads : GetFinish(t)

SpecDir == InitDir /\ [][NextDir]_vars

\* Three threads that call run() and stop() on one engine, under fair
\* scheduling; no load_assets() here, so the directory plays no part.
InitLoops ==
    /\ InitEngine
    /\ assets_dir = DefaultDir
    /\ fs.kind = "missing"
    /\ host = "lib"
    /\ callers = Threads

NextLoops ==
    \/ \E t \in Threads : CallRun(t)
    \/ \E t \in Threads : CallStop(t)
    \/ \E t \in Threads : TickAcquire(t)
    \/ \E t \in Threads : TickLoad(t)
    \/ \E t \in Threads : TickStore(t)
    \/ \E t \in Threads : TickRelease(t)
    \/ \E t \in Threads : RunSet(t)
    \/ \E t \in Threads : RunCheckTrue(t)
    \/ \E t \in Threads : RunCheckFalse(t)
    \/ \E t \in Threads : RunSleep(t)
    \/ \E t \in Threads : StopSet(t)
    \/ \E t \in Threads : StopReturn(t)

SpecLoops == InitLoops /\ [][NextLoops]_vars /\ Fairness

\* ================================================================ claims

\* C1: when every tick() call made so far has returned, tick_count equals
\* the number of calls made (the engine starts at 0): concurrent callers
\* lose no increment and none is counted twice.
C1_NoLostTick ==
    (\A t \in Threads : pc[t] \notin TickPcs) => tick_count = nTickCalls

\* C1 witness: two callers are in tick() at once, one holding the lock after
\* its increment, the other waiting for it, and every call allowed is made.
C1_Witness ==
    \E t, u \in Threads :
        /\ t # u
        /\ op[t] = "tick" /\ pc[t] = "tick_release" /\ lock = t
        /\ op[u] = "tick" /\ pc[u] = "tick_acquire"
        /\ nTickCalls = MaxTick
        /\ tick_count = MaxTick - 1

\* C2: the mapping state() returns is a pair the engine held at one instant
\* while that call had the lock, whatever tick() and load_assets() did then.
C2_ConsistentPair ==
    \A t \in Threads :
        pc[t] = "state_return" =>
            <<result[t].tick, result[t].assets>> \in seen[t]

\* C2 witness: a state() returns after the engine's pair changed while it
\* held the lock (a concurrent load_assets() stored a new count).
C2_Witness ==
    \E t \in Threads :
        /\ pc[t] = "state_return"
        /\ Cardinality(seen[t]) >= 2
        /\ <<result[t].tick, result[t].assets>> \in seen[t]

\* The steps that read or write tick_count or assets_count.
AccessPcs == {"tick_load", "tick_store", "state_read_tick", "state_read_assets",
              "load_absent", "load_store", "load_except"}

\* C3: a thread about to read or write tick_count or assets_count holds the
\* engine's lock.
C3_LockHeldOnAccess ==
    \A t \in Threads : pc[t] \in AccessPcs => lock = t

\* C4: tick_count changes only in the store of tick(), and then by exactly +1.
C4_TickOnlyByTick ==
    [][ tick_count' # tick_count =>
           /\ tick_count' = tick_count + 1
           /\ \E t \in Threads : pc[t] = "tick_store" /\ pc'[t] = "tick_release"
      ]_vars

\* C4 witness: the run loop has advanced the clock past 1.
C4_Witness ==
    \E t \in Threads :
        op[t] = "run" /\ pc[t] = "tick_release" /\ tick_count >= 2

\* C5: with a single caller on a fresh engine, the mapping state() returns
\* has tick equal to the number of tick() calls made before it.
C5_SequentialTicks ==
    \A t \in Threads :
        pc[t] = "state_return" => result[t].tick = nTickCalls

\* C5 witness: state() returns MaxTick after MaxTick sequential tick() calls.
C5_Witness ==
    /\ callers = {MainThread}
    /\ pc[MainThread] = "state_return"
    /\ nTickCalls = MaxTick
    /\ result[MainThread].tick = MaxTick

\* The entries of a directory that are no hidden files.
NonHidden(entries) == { f \in entries : f[1] # "." }

\* C6: load_assets() raises nothing. A path that is missing or no directory
\* takes the early return, a failing listing the except clause (also when
\* the directory went away after the isdir check); either stores 0 into
\* assets_count, whatever it held, and the call returns normally.
C6_LoadAbsorbsErrors ==
    /\ [](\A t \in Threads : pc[t] # "raised")
    /\ [][ \A t \in Threads :
              /\ (pc[t] = "load_isdir" /\ pc'[t] # pc[t]
                    /\ fs.kind \in {"missing", "file"})
                  => pc'[t] = "load_absent"
              /\ (pc[t] = "load_listdir" /\ pc'[t] # pc[t] /\ fs.kind # "dir")
                  => pc'[t] = "load_except"
              /\ (pc[t] \in {"load_absent", "load_except"} /\ pc'[t] # pc[t])
                  => /\ pc'[t] = "load_return"
                     /\ assets_count' = 0
              /\ (pc[t] = "load_return" /\ pc'[t] # pc[t])
                  => pc'[t] = AfterReturn(t, "load_assets")
         ]_vars

\* C6 witness: a load_assets() is returning 0 through its except clause: the
\* directory was there at the isdir check and is gone.
C6_Witness ==
    \E t \in Threads :
        /\ pc[t] = "load_return"
        /\ path[t] = "except"
        /\ fs.kind = "missing"
        /\ assets_count = 0

\* C7: a listing that succeeds stores the number of entries, of the directory
\* as listed, whose name does not start with ".".
C7_CountsNonHidden ==
    [][ \A t \in Threads :
           /\ (pc[t] = "load_listdir" /\ pc'[t] # pc[t] /\ fs.kind = "dir")
               => /\ pc'[t] = "load_store"
                  /\ tmp'[t] = Cardinality(NonHidden(fs.entries))
           /\ (pc[t] = "load_store" /\ pc'[t] # pc[t])
               => /\ pc'[t] = "load_return"
                  /\ assets_count' = Cardinality(NonHidden(listed[t]))
      ]_vars

\* C7 witness: a load_assets() over the entries a, .h, b.c is returning, and
\* assets_count is 2.
C7_Witness ==
    \E t \in Threads :
        /\ pc[t] = "load_return"
        /\ path[t] = "listed"
        /\ listed[t] = { <<"a">>, <<".", "h">>, <<"b", ".", "c">> }
        /\ assets_count = 2

\* C8: assets_count changes only in a store of load_assets(); a change of the
\* directory leaves it as it is.
C8_SnapshotSemantics ==
    [][ /\ assets_count' # assets_count =>
             \E t \in Threads :
                 /\ pc[t] \in {"load_absent", "load_store", "load_except"}
                 /\ pc'[t] = "load_return"
        /\ fs' # fs => assets_count' = assets_count
      ]_vars

\* C8 witness: no load_assets() is under way, the directory is gone, and
\* assets_count still holds the 2 of the last load.
C8_Witness ==
    /\ \A t \in Threads : pc[t] \notin LoadPcs
    /\ fs.kind = "missing"
    /\ assets_count = 2

\* C9: the mapping state() returns has exactly the keys tick and assets, both
\* with a non-negative integer.
C9_StateShape ==
    \A t \in Threads :
        pc[t] = "state_return" =>
            /\ DOMAIN result[t] = {"tick", "assets"}
            /\ result[t].tick \in Nat
            /\ result[t].assets \in Nat

\* C9 witness: state() returns tick MaxTick and assets 2.
C9_Witness ==
    \E t \in Threads :
        /\ pc[t] = "state_return"
        /\ result[t] = [tick |-> MaxTick, assets |-> 2]

\* C10: stop() clears the running flag and touches nothing else; while no
\* run() is under way the flag is clear, so that stop() on an idle engine,
\* and a stop() after a stop(), changes nothing.
C10_StopToIdle ==
    /\ []((\A t \in Threads : op[t] # "run") => ~running)
    /\ [][ \A t \in Threads :
              (pc[t] = "stop_set" /\ pc'[t] # pc[t]) =>
                  /\ ~running'
                  /\ tick_count' = tick_count
                  /\ assets_count' = assets_count
                  /\ lock' = lock
                  /\ ~running => running' = running
         ]_vars

\* C10 witness: stop() has cleared the flag of an engine whose run loop has
\* ticked and is asleep.
C10_Witness ==
    \E t \in Threads :
        /\ op[t] = "run" /\ pc[t] = "run_sleep"
        /\ tick_count >= 1
        /\ ~running

\* C11: once stop() has cleared the flag a loop takes no further iteration,
\* also when run() is called again before the loop has checked the flag, so
\* that the new run() is the one loop advancing the clock.
C11_StoppedLoopEnds ==
    [][ \A t \in Threads :
           loop[t] \in {"stopped", "revived"} =>
               ~(pc[t] = "run_check" /\ pc'[t] = "tick_acquire")
      ]_vars

\* C12: a loop whose flag stop() has cleared leaves run(), unless a later
\* run() sets the flag again before the loop has checked it.
C12_StoppedLoopReturns ==
    \A t \in Threads : (loop[t] = "stopped") ~> (loop[t] # "stopped")

\* C12 witness: a loop that has ticked is at its check of the flag, which a
\* stop() has cleared.
C12_Witness ==
    \E t \in Threads :
        /\ loop[t] = "stopped"
        /\ pc[t] = "run_check"
        /\ ~running
        /\ tick_count >= 1

\* The pcs of a thread inside do_GET before its response is sent.
GetPcs == {"get_route", "get_send_ok", "get_send_state", "get_send_404"}
               \cup StatePcs

\* C13: do_GET answers by the exact request path: "/" and "/health" get 200
\* and {"status": "ok"}, "/state" gets 200 and the mapping state() returned,
\* every other path gets 404 and {"error": "not found"}; one response is
\* sent per request, none before the routing is done.
C13_RoutesByExactPath ==
    \A t \in Threads :
        /\ (op[t] = "do_GET" /\ pc[t] \in GetPcs) => out[t] = << >>
        /\ pc[t] = "get_done" =>
              /\ Len(out[t]) = 1
              /\ IF arg[t] \in {"/", "/health"}
                    THEN out[t][1] = [status |-> 200, body |-> [status |-> "ok"]]
                 ELSE IF arg[t] = "/state"
                    THEN /\ out[t][1].status = 200
                         /\ out[t][1].body = result[t]
                         /\ DOMAIN result[t] = {"tick", "assets"}
                 ELSE out[t][1] = [status |-> 404,
                                   body |-> [error |-> "not found"]]

\* C13 witness: a request for "/state?x=1" has been answered with 404.
C13_Witness ==
    \E t \in Threads :
        /\ pc[t] = "get_done"
        /\ arg[t] = "/state?x=1"
        /\ out[t] = << [status |-> 404, body |-> [error |-> "not found"]] >>

\* C14: the clients of GET /state that are answered together all get 200
\* and the same body, the tick and assets the engine holds.
C14_SameStateForAll ==
    \A t \in Threads :
        (pc[t] = "get_done" /\ arg[t] = "/state") =>
            /\ out[t] = << [status |-> 200,
                            body |-> [tick |-> tick_count,
                                      assets |-> assets_count]] >>
            /\ \A u \in Threads :
                   (pc[u] = "get_done" /\ arg[u] = "/state") => out[u] = out[t]

\* C14 witness: two clients have their answers to GET /state, the
\* directory having changed since the server counted two assets in it.
C14_Witness ==
    /\ \A t \in Threads \ {MainThread} :
           /\ pc[t] = "get_done"
           /\ arg[t] = "/state"
           /\ out[t][1].body.assets = 2
    /\ fs.kind # "dir"

\* C15: a request for "/" or "/health" leaves tick and assets as they are
\* at every step of its handler, and its body is {"status": "ok"}.
C15_HealthReadOnly ==
    [][ \A t \in Threads :
           (op[t] = "do_GET" /\ arg[t] \in {"/", "/health"} /\ pc'[t] # pc[t]) =>
               /\ << tick_count, assets_count >>' = << tick_count, assets_count >>
               /\ pc'[t] = "get_done" =>
                      /\ Len(out'[t]) = 1
                      /\ out'[t][1].body = [status |-> "ok"]
      ]_vars

\* C15 witness: GET /health has been answered, the engine holding the two
\* assets counted at startup.
C15_Witness ==
    \E t \in Threads :
        /\ pc[t] = "get_done"
        /\ arg[t] = "/health"
        /\ out[t][1].body = [status |-> "ok"]
        /\ assets_count = 2
        /\ tick_count = 0

\* The pcs of a thread inside a `with self._lock:` block of tick() or state().
LockedPcs == {"tick_load", "tick_store", "tick_release",
              "state_read_tick", "state_read_assets", "state_release"}

\* C16: the lock is held only by a thread inside the locked block of tick()
\* or state(), and under fair scheduling a thread that calls state(), a
\* connection's handler or another, gets its return.
C16_LockAlwaysReleased ==
    /\ [](\A t \in Threads : lock = t => pc[t] \in LockedPcs)
    /\ \A t \in Threads : (pc[t] = "state_acquire") ~> (pc[t] = "state_return")

\* C16 witness: a handler's state() has returned and freed the lock while
\* another handler waits for it.
C16_Witness ==
    \E t, u \in Threads :
        /\ op[t] = "do_GET"
        /\ pc[t] = "state_return"
        /\ op[u] = "do_GET"
        /\ pc[u] = "state_acquire"
        /\ lock = NoThread

\* C17: the server's one engine is loaded once, by the main thread as the
\* module is set up, and a connection is handled only after that load has
\* returned and the main thread is in serve_forever(), which it stays in.
C17_LoadBeforeServing ==
    [][ /\ (\E t \in Threads \ {MainThread} : op'[t] = "do_GET") =>
               pc'[MainThread] = "serve_forever"
        /\ \A t \in Threads :
               (pc'[t] = "load_isdir" /\ pc[t] # "load_isdir") =>
                   (t = MainThread /\ pc[t] = "idle")
        /\ pc[MainThread] # "idle" => pc'[MainThread] # "idle"
        /\ pc[MainThread] = "serve_forever" => pc'[MainThread] = "serve_forever"
      ]_vars

\* C17 witness: a connection's handler starts on the engine the main thread
\* has loaded with one asset.
C17_Witness ==
    \E t \in Threads \ {MainThread} :
        /\ pc[t] = "get_route"
        /\ pc[MainThread] = "serve_forever"
        /\ assets_count = 1
        /\ out[MainThread] # << >>

\* The number of assets in the directory the command runs over.
Found == IF fs.kind = "dir" THEN Cardinality(NonHidden(fs.entries)) ELSE 0

\* A command's load_assets() is called from the start of main() only.
LoadsOnce ==
    \A t \in Threads :
        (pc'[t] = "load_isdir" /\ pc[t] # "load_isdir") => pc[t] = "idle"

\* C18: `run N` with N >= 0 loads the assets once, before any advance, then
\* makes N advances one after the other, each followed by its wait, and
\* prints "done ticks: N", the asset count of that load, and "tick: N".
C18_RunAdvancesN ==
    /\ [](\A t \in Threads :
             (op[t] = "cmd_run" /\ arg[t] >= 0) =>
                 /\ pc[t] \in LoadPcs =>
                        (nTickCalls = 0 /\ tick_count = 0 /\ iter[t] = 0)
                 /\ pc[t] = "cmd_run_loop" =>
                        (iter[t] <= arg[t] /\ tick_count = iter[t]
                                           /\ nTickCalls = iter[t])
                 /\ pc[t] = "cmd_run_sleep" =>
                        (tick_count = iter[t] + 1 /\ nTickCalls = iter[t] + 1)
                 /\ pc[t] = "exited" =>
                        /\ nTickCalls = arg[t]
                        /\ iter[t] = arg[t]
                        /\ out[t] = << <<"done ticks", arg[t]>>,
                                       <<"assets", Found>>,
                                       <<"tick", arg[t]>> >>)
    /\ [][LoadsOnce]_vars

\* C18 witness: `run 3` over a directory with two assets has printed its
\* three lines.
C18_Witness ==
    \E t \in Threads :
        /\ op[t] = "cmd_run"
        /\ pc[t] = "exited"
        /\ arg[t] = MaxTick
        /\ out[t] = << <<"done ticks", MaxTick>>, <<"assets", 2>>,
                       <<"tick", MaxTick>> >>

\* C19: `run N` with N <= 0 makes no advance and does not fail: it ends
\* having printed the asset count of its load and "tick: 0".
C19_RunNonPositive ==
    \A t \in Threads :
        (op[t] = "cmd_run" /\ arg[t] <= 0) =>
            /\ nTickCalls = 0
            /\ tick_count = 0
            /\ pc[t] \notin TickPcs \cup {"cmd_run_sleep"}
            /\ pc[t] = "exited" =>
                   /\ Len(out[t]) = 3
                   /\ out[t][2] = <<"assets", Found>>
                   /\ out[t][3] = <<"tick", 0>>

\* C19 witness: `run -1` over a directory with one asset has printed its
\* final state.
C19_Witness ==
    \E t \in Threads :
        /\ op[t] = "cmd_run"
        /\ pc[t] = "exited"
        /\ arg[t] = -1
        /\ out[t][2] = <<"assets", 1>>
        /\ out[t][3] = <<"tick", 0>>

\* C20: `state` loads the assets once, makes no advance, and prints
\* "status: ok", the asset count of that load and the tick count, in this
\* order and nothing else; over a missing directory the count is 0.
C20_StatePrints ==
    /\ [](\A t \in Threads :
             op[t] = "cmd_state" =>
                 /\ nTickCalls = 0
                 /\ tick_count = 0
                 /\ pc[t] \notin TickPcs
                 /\ out[t] \in { << >>,
                                 << <<"status", "ok">> >>,
                                 << <<"status", "ok">>, <<"assets", Found>> >>,
                                 << <<"status", "ok">>, <<"assets", Found>>,
                                    <<"tick", 0>> >> }
                 /\ pc[t] = "exited" =>
                        /\ Len(out[t]) = 3
                        /\ fs.kind = "missing" => out[t][2] = <<"assets", 0>>)
    /\ [][LoadsOnce]_vars

\* C20 witness: `state` over a missing directory has printed its three
\* lines.
C20_Witness ==
    \E t \in Threads :
        /\ op[t] = "cmd_state"
        /\ pc[t] = "exited"
        /\ fs.kind = "missing"
        /\ out[t] = << <<"status", "ok">>, <<"assets", 0>>, <<"tick", 0>> >>

\* C21: a new engine has tick 0, asset count 0 and no loop, over whatever
\* its assets_dir names; the asset count changes only as a load_assets()
\* stores it, and tick is 0 while no tick() has been called.
C21_FreshEngine ==
    /\ (tick_count = 0 /\ assets_count = 0 /\ ~running
            /\ \A t \in Threads : loop[t] = "none")
    /\ [](nTickCalls = 0 => tick_count = 0)
    /\ [][ assets_count' # assets_count =>
              \E t \in Threads :
                  /\ pc[t] \in {"load_absent", "load_store", "load_except"}
                  /\ pc'[t] = "load_return"
         ]_vars

\* C21 witness: state() on an engine not yet loaded, whose directory holds
\* two assets, returns tick 0 and assets 0.
C21_Witness ==
    \E t \in Threads :
        /\ pc[t] = "state_return"
        /\ result[t] = [tick |-> 0, assets |-> 0]
        /\ fs.kind = "dir"
        /\ Cardinality(NonHidden(fs.entries)) = 2
        /\ nTickCalls = 0

\* C22: assets_dir keeps the value the constructor gave it over every step
\* of the engine and of its front ends, and it is the path a load_assets()
\* gives to os.path.isdir and to os.listdir.
C22_AssetsDirImmutable ==
    /\ [][assets_dir' = assets_dir]_vars
    /\ [](\A t \in Threads :
             pc[t] \in LoadPcs \ {"load_isdir"} => scanned[t] = assets_dir)

\* C22 witness: after ticks and a first load, a second load_assets() on an
\* engine made over "assets" has found that path to be no directory.
C22_Witness ==
    \E t \in Threads :
        /\ pc[t] = "load_absent"
        /\ assets_dir = "assets"
        /\ scanned[t] = "assets"
        /\ tick_count >= 1

\* The number a string of decimal digits writes.
RECURSIVE IntOf(_)
IntOf(digits) ==
    IF digits = << >> THEN 0
    ELSE 10 * IntOf(SubSeq(digits, 1, Len(digits) - 1))
         + (CHOOSE d \in 0..9 : DigitChar(d) = digits[Len(digits)])

\* C23: every response a handler sends, 200 or 404, has Content-Type
\* application/json and a Content-Length that writes the number of bytes of
\* the body written, the UTF-8 encoding of the JSON text of the object.
C23_ContentLengthExact ==
    \A t \in Threads :
        op[t] = "do_GET" =>
            /\ Len(wire[t]) = Len(out[t])
            /\ \A i \in 1..Len(wire[t]) :
                   /\ wire[t][i].ctype = "application/json"
                   /\ wire[t][i].data = Encode(Dumps(out[t][i].body))
                   /\ IntOf(wire[t][i].clen) = Len(wire[t][i].data)

\* C23 witness: a 404 with its 22 bytes and a GET /state answer with its 24
\* bytes have been sent.
C23_Witness ==
    \E t, u \in Threads :
        /\ pc[t] = "get_done"
        /\ out[t][1].status = 404
        /\ wire[t][1].clen = <<"2", "2">>
        /\ Len(wire[t][1].data) = 22
        /\ pc[u] = "get_done"
        /\ arg[u] = "/state"
        /\ wire[u][1].clen = <<"2", "4">>
        /\ Len(wire[u][1].data) = 24

\* C24: a loop that a stop() has reached, no run() having set the flag
\* since, starts no tick(): the one it may be in is its last, and it is in
\* none when the stop() comes as it sleeps or before its check.
C24_AtMostOneMoreTick ==
    [][ \A t \in Threads :
           loop[t] = "stopped" =>
               /\ ~running
               /\ pc[t] \in {"run_check", "run_sleep"} =>
                      pc'[t] \in {"run_check", "run_sleep", "idle"}
      ]_vars

\* C24 witness: the stop() has come between the loop's check and the store
\* of its second tick().
C24_Witness ==
    \E t \in Threads :
        /\ loop[t] = "stopped"
        /\ pc[t] = "tick_store"
        /\ tick_count = 1
        /\ ~running

\* C25: a thread in run() holds the lock only inside the tick() of an
\* iteration: not as it sleeps nor at its check of the flag, so that a
\* thread waiting to enter state() or tick() while a loop sleeps waits, if
\* at all, for a thread that is inside a locked block.
C25_NoLockWhileSleeping ==
    \A t \in Threads :
        /\ (op[t] = "run" /\ pc[t] \notin TickPcs) => lock # t
        /\ pc[t] = "run_sleep" =>
               \A u \in Threads :
                   pc[u] \in {"state_acquire", "tick_acquire"} =>
                       \/ lock = NoThread
                       \/ (lock \notin {t, u} /\ pc[lock] \in LockedPcs)

\* C25 witness: as the loop sleeps after a tick, another thread is inside
\* state() with the lock.
C25_Witness ==
    \E t, u \in Threads :
        /\ pc[t] = "run_sleep"
        /\ tick_count >= 1
        /\ pc[u] = "state_read_assets"
        /\ lock = u

\* C26: run() sets the flag whatever it was, a stop() before it
\* notwithstanding, and goes to its check; at a check the loop goes on into
\* tick() unless a stop() has cleared the flag since the loop set it, and
\* then it returns.
C26_StopNotLatched ==
    [][ \A t \in Threads :
           /\ (pc[t] = "run_set" /\ pc'[t] # pc[t]) =>
                  (running' /\ pc'[t] = "run_check")
           /\ (pc[t] = "run_check" /\ pc'[t] # pc[t]) =>
                  IF loop[t] = "stopped" THEN pc'[t] = "idle"
                                         ELSE pc'[t] = "tick_acquire"
      ]_vars

\* C26 witness: a stop() cleared the flag and has not yet returned; the
\* run() that set the flag after it is in its first tick().
C26_Witness ==
    \E t, u \in Threads :
        /\ pc[u] = "stop_return"
        /\ loop[t] = "live"
        /\ pc[t] = "tick_store"
        /\ tick_count = 0
        /\ running

\* C27: once the server serves, tick stays 0 and the asset count stays what
\* the load at startup stored: a handler is in no tick(), run() or
\* load_assets(), whatever path it was asked, and an answer to GET /state
\* reports tick 0 and that count.
C27_ServerStateConstant ==
    /\ [](tick_count = 0 /\ ~running)
    /\ [][ pc[MainThread] = "serve_forever" => assets_count' = assets_count ]_vars
    /\ [](\A t \in Threads :
             op[t] = "do_GET" =>
                 /\ pc[t] \notin TickPcs \cup LoadPcs \cup RunPcs
                 /\ (pc[t] = "get_done" /\ arg[t] = "/state") =>
                        out[t][1].body = [tick |-> 0, assets |-> assets_count])

\* C27 witness: the directory has been emptied since the server counted one
\* asset in it, and GET /state is answered with tick 0 and assets 1.
C27_Witness ==
    \E t \in Threads :
        /\ pc[t] = "get_done"
        /\ arg[t] = "/state"
        /\ out[t][1].body = [tick |-> 0, assets |-> 1]
        /\ fs = [kind |-> "dir", entries |-> {}]

\* C28: a step of tick() leaves assets_count as it is, a step of
\* load_assets(), on whichever branch, leaves tick_count as it is, and a
\* step of state() or of stop() leaves both as they are.
C28_OwnFieldOnly ==
    [][ \A t \in Threads :
           pc'[t] # pc[t] =>
               /\ pc[t] \in TickPcs => assets_count' = assets_count
               /\ pc[t] \in LoadPcs => tick_count' = tick_count
               /\ pc[t] \in StatePcs \cup {"stop_set", "stop_return"} =>
                      (tick_count' = tick_count /\ assets_count' = assets_count)
      ]_vars

\* C28 witness: after MaxTick ticks and a load that counted two assets, a
\* load_assets() has failed in os.listdir and stored 0, the clock untouched.
C28_Witness ==
    \E t \in Threads :
        /\ pc[t] = "load_return"
        /\ path[t] = "except"
        /\ assets_count = 0
        /\ tick_count = MaxTick
        /\ <<MaxTick, 2>> \in UNION {seen[u] : u \in Threads}

\* max(a, b)
Max(a, b) == IF a >= b THEN a ELSE b

\* C29: `run N` ends with "tick: max(N, 0)", the number of advances it
\* made, and with "done ticks: N" as given, so that the two numbers are the
\* same exactly when N >= 0.
C29_TickLineIsMax ==
    \A t \in Threads :
        (op[t] = "cmd_run" /\ pc[t] = "exited") =>
            /\ nTickCalls = Max(arg[t], 0)
            /\ out[t][1] = <<"done ticks", arg[t]>>
            /\ out[t][3] = <<"tick", Max(arg[t], 0)>>
            /\ (out[t][1][2] = out[t][3][2]) <=> (arg[t] >= 0)

\* C29 witness: `run -1` has printed "done ticks: -1" and "tick: 0".
C29_Witness ==
    \E t \in Threads :
        /\ op[t] = "cmd_run"
        /\ pc[t] = "exited"
        /\ out[t][1] = <<"done ticks", -1>>
        /\ out[t][3] = <<"tick", 0>>
        /\ nTickCalls = 0

\* C30: the loops of one engine advance one clock, by one for each
\* iteration of each loop, and read one flag: a stop() clears it for all of
\* them, and the loops it has reached all return from run(), unless a later
\* run() sets the flag again first.
C30_LoopsShareFlag ==
    /\ [](tick_count = nTickCalls
              - Cardinality({t \in Threads :
                               pc[t] \in {"tick_acquire", "tick_load", "tick_store"}}))
    /\ [][ \A t \in Threads :
              (pc[t] = "stop_set" /\ pc'[t] # pc[t]) =>
                  (~running' /\ \A u \in Threads : loop'[u] \in {"none", "stopped"})
         ]_vars
    /\ \A t, u \in Threads :
           (t # u /\ loop[t] = "stopped" /\ loop[u] = "stopped")
               ~> (loop[t] # "stopped" /\ loop[u] # "stopped")

\* C30 witness: two loops have made the ticks between them, and the one
\* stop() of the third thread has reached both of them.
C30_Witness ==
    \E t, u, v \in Threads :
        /\ t # u
        /\ loop[t] = "stopped" /\ pc[t] = "run_sleep"
        /\ loop[u] = "stopped" /\ pc[u] = "tick_store"
        /\ pc[v] = "stop_return"
        /\ tick_count = MaxTick - 1
        /\ nTickCalls = MaxTick
====
